---- MODULE Spec2Model ----
(***************************************************************************)
(* TrendProphet (src/trend_prophet.py): a Streamlit script.  Every user    *)
(* interaction re-runs the script top to bottom: the sidebar (ticker,      *)
(* cached load_data, the two sliders, the button), then the main           *)
(* dashboard (filter, gate, Prophet fit/predict, summary, export).         *)
(* Dates are day numbers; a DataFrame is a record holding its index's      *)
(* time zone and its rows in index order.                                  *)
(***************************************************************************)
EXTENDS Integers, Sequences, FiniteSets, TLC

VARIABLES
    now,            \* wall clock, seconds
    provider,       \* what yfinance would answer for each ticker right now
    cache,          \* st.cache_data's store for load_data, keyed by ticker
    last_query,     \* per ticker: when the provider was last queried and what load_data made of it
    pc,             \* position of the script run
    ticker,
    full_df,
    queried,        \* whether this run's load_data call reached the provider
    total_days,
    days_offset,
    training_start,
    horizon,
    run_button,
    filtered_df,
    fit_status,     \* what m.fit did in this run: "none", "ok" or "raised"
    forecast,
    summary,
    forecast_export,
    csv,
    shown,          \* the elements the run has put on the page
    exception       \* the uncaught exception that ended the run, if any

vars == <<now, provider, cache, last_query, pc, ticker, full_df, queried,
          total_days, days_offset, training_start, horizon, run_button,
          filtered_df, fit_status, forecast, summary, forecast_export, csv,
          shown, exception>>

runvars == <<ticker, full_df, queried, total_days, days_offset, training_start,
             horizon, run_button, filtered_df, fit_status, forecast, summary,
             forecast_export, csv, shown, exception>>

sidebarvars == <<ticker, full_df, queried, total_days, days_offset,
                 training_start, horizon, run_button>>

globals == <<now, provider, cache, last_query>>

----------------------------------------------------------------------------
(* Program constants *)

TTL == 3600
SliderReserve == 30
MinPoints == 20
HorizonMin == 30
HorizonMax == 365

(* Bounds of the model *)

MaxTime == 3600
MainEarlyLast == 9
MainLast == 40
ShortLast == 9
Band == 5

Tickers == {"AAPL", "NEWCO"}
TickSteps == {TTL - 1, TTL}
Horizons == {HorizonMin, HorizonMax}
Levels == {0, 100}
Slopes == {-1, 0, 1}

----------------------------------------------------------------------------
(* Values *)

None == [kind |-> "None"]
NoEntry == [kind |-> "NoEntry"]
NoQuery == [kind |-> "NoQuery"]

Min(a, b) == IF a <= b THEN a ELSE b
Max(a, b) == IF a >= b THEN a ELSE b

RECURSIVE SeqOfRange(_, _)
SeqOfRange(lo, hi) ==
    IF lo > hi THEN <<>> ELSE <<lo>> \o SeqOfRange(lo + 1, hi)

PriceRow(d) == [Date |-> d, Close |-> 100 + d]

RowsOf(dates) == [i \in 1..Len(dates) |-> PriceRow(dates[i])]

\* The histories the provider can hold: a sparse one (three early quotes, a
\* gap, then a daily run to MainLast), a newly listed one of fewer than
\* SliderReserve days, and one with no rows.
MainDates == <<0, 5, MainEarlyLast>> \o SeqOfRange(MainLast - MinPoints + 1, MainLast)
ShortDates == SeqOfRange(0, ShortLast)

ProviderAnswers(t) ==
    IF t = "AAPL" THEN {"error", "short", "main"} ELSE {"norows", "short"}

History(answer) ==
    [tz   |-> "America/New_York",
     rows |-> CASE answer = "main"  -> RowsOf(MainDates)
                [] answer = "short" -> RowsOf(ShortDates)
                [] OTHER            -> <<>>]

----------------------------------------------------------------------------
(* load_data and its cache *)

\* The body of load_data: any provider error and an empty frame both give
\* None; otherwise the frame with its index made timezone-naive.
load_data(t) ==
    IF provider[t] = "error"
    THEN None
    ELSE LET df == History(provider[t])
         IN  IF Len(df.rows) = 0
             THEN None
             ELSE [df EXCEPT !.tz = "naive"]

\* Variant: an entry still served when exactly ttl seconds old.
CacheFreshInclusive(t) ==
    /\ cache[t] # NoEntry
    /\ now - cache[t].stored_at <= TTL

\* @st.cache_data(ttl=3600): an entry stored at time s is served while
\* now - s < ttl.
CacheFresh(t) ==
    /\ cache[t] # NoEntry
    /\ now - cache[t].stored_at < TTL

\* Variant: a None result is not stored.
CacheStoreSeriesOnly(t, value) ==
    IF value = None
    THEN cache
    ELSE [cache EXCEPT ![t] = [value |-> value, stored_at |-> now]]

\* Whatever the function returned is stored, None included.
CacheStore(t, value) ==
    [cache EXCEPT ![t] = [value |-> value, stored_at |-> now]]

\* The decorated call load_data(ticker): the value it returns, the cache
\* and the query log after it.
CachedLoad(t) ==
    IF CacheFresh(t)
    THEN [value |-> cache[t].value, queried |-> FALSE,
          cache |-> cache, log |-> last_query]
    ELSE LET v == load_data(t)
         IN  [value |-> v,
              queried |-> TRUE,
              cache |-> CacheStore(t, v),
              log   |-> [last_query EXCEPT ![t] = [at |-> now, result |-> v]]]

----------------------------------------------------------------------------
(* Sidebar *)

index_min(df) == df.rows[1].Date
index_max(df) == df.rows[Len(df.rows)].Date

\* st.slider(min_value=0, max_value=total_days - 30, value=0): the values
\* the widget can return.  With max_value below min_value Streamlit either
\* rejects the call or widens the bounds to contain them and the default,
\* depending on its version.
SliderMax(td) == td - SliderReserve

SliderValues(td) ==
    Min(0, SliderMax(td)) .. Max(0, SliderMax(td))

\* The slider positions tried: both ends of the range and the one before the
\* upper end.
TriedOffsets(td) ==
    LET lo == Min(0, SliderMax(td))
        hi == Max(0, SliderMax(td))
    IN  SliderValues(td) \cap {lo, hi - 1, hi}

ResetRun ==
    /\ filtered_df' = None
    /\ fit_status' = "none"
    /\ forecast' = None
    /\ summary' = None
    /\ forecast_export' = None
    /\ csv' = <<>>

\* Lines 29-71 with a series: the two sliders and the button.
SidebarSeries(t, df, off, h, click) ==
    /\ total_days' = index_max(df) - index_min(df)
    /\ days_offset' = off
    /\ training_start' = index_min(df) + off
    /\ horizon' = h
    /\ run_button' = click
    /\ shown' = {}
    /\ exception' = "none"
    /\ pc' = "main"

\* The slider call rejected: the run ends there.
SidebarSliderRaises(df) ==
    /\ total_days' = index_max(df) - index_min(df)
    /\ days_offset' = 0
    /\ training_start' = 0
    /\ horizon' = 0
    /\ run_button' = FALSE
    /\ shown' = {"exception"}
    /\ exception' = "StreamlitAPIException"
    /\ pc' = "done"

\* Variant: the button is drawn in the else branch too.
SidebarNoSeriesButton ==
    /\ total_days' = 0
    /\ days_offset' = 0
    /\ training_start' = 0
    /\ horizon' = HorizonMin
    /\ shown' = {"ticker_error"}
    /\ run_button' \in BOOLEAN
    /\ exception' = "none"
    /\ pc' = "main"

\* Lines 69-71: no series.
SidebarNoSeries ==
    /\ total_days' = 0
    /\ days_offset' = 0
    /\ training_start' = 0
    /\ horizon' = 0
    /\ shown' = {"ticker_error"}
    /\ run_button' = FALSE
    /\ exception' = "none"
    /\ pc' = "main"

Sidebar(t) ==
    /\ pc = "idle"
    /\ LET r == CachedLoad(t)
       IN  /\ ticker' = t
           /\ full_df' = r.value
           /\ queried' = r.queried
           /\ cache' = r.cache
           /\ last_query' = r.log
           /\ ResetRun
           /\ IF r.value # None
              THEN LET td == index_max(r.value) - index_min(r.value)
                   IN  \/ \E off \in TriedOffsets(td), h \in Horizons, click \in BOOLEAN :
                              SidebarSeries(t, r.value, off, h, click)
                       \/ /\ SliderMax(td) < 0
                          /\ SidebarSliderRaises(r.value)
              ELSE SidebarNoSeries
    /\ UNCHANGED <<now, provider>>

----------------------------------------------------------------------------
(* Main dashboard: filter and gate *)

\* Variant: bisection to the right of the rows dated d.
RECURSIVE SearchSortedRight(_, _, _, _)
SearchSortedRight(rows, d, lo, hi) ==
    IF lo >= hi
    THEN lo
    ELSE LET mid == (lo + hi) \div 2
         IN  IF rows[mid].Date <= d
             THEN SearchSortedRight(rows, d, mid + 1, hi)
             ELSE SearchSortedRight(rows, d, lo, mid)

\* Position of the first row whose Date is not before d, by bisection on
\* the sorted index (1-based; Len + 1 when there is none).
RECURSIVE SearchSorted(_, _, _, _)
SearchSorted(rows, d, lo, hi) ==
    IF lo >= hi
    THEN lo
    ELSE LET mid == (lo + hi) \div 2
         IN  IF rows[mid].Date < d
             THEN SearchSorted(rows, d, mid + 1, hi)
             ELSE SearchSorted(rows, d, lo, mid)

\* full_df.loc[str(training_start):]: the rows from the first one dated
\* training_start or later to the end.
Select(df, start) ==
    LET i == SearchSorted(df.rows, start, 1, Len(df.rows) + 1)
    IN  [df EXCEPT !.rows = SubSeq(df.rows, i, Len(df.rows))]

\* Variant: len(filtered_df) >= 20
EnoughDataAtLeast(df) == Len(df.rows) >= MinPoints

\* len(filtered_df) > 20
EnoughData(df) == Len(df.rows) > MinPoints

\* Lines 99-103 and 184-205.
Main ==
    /\ pc = "main"
    /\ IF run_button
       THEN LET f == Select(full_df, training_start)
            IN  /\ filtered_df' = f
                /\ IF EnoughData(f)
                   THEN /\ pc' = "fit"
                        /\ shown' = shown
                   ELSE /\ pc' = "done"
                        /\ shown' = shown \cup {"warning"}
       ELSE /\ filtered_df' = filtered_df
            /\ pc' = "done"
            /\ shown' = shown \cup {"landing"}
    /\ UNCHANGED <<globals, sidebarvars, fit_status, forecast, summary,
                   forecast_export, csv, exception>>

----------------------------------------------------------------------------
(* Prophet *)

\* filtered_df.reset_index()[['Date', 'Close']].rename(...)
df_prophet(df) ==
    [i \in 1..Len(df.rows) |-> [ds |-> df.rows[i].Date, y |-> df.rows[i].Close]]

\* m.make_future_dataframe(periods=horizon): the training dates, then one
\* row per day for `periods` days after the last of them.
make_future_dataframe(train, periods) ==
    [i \in 1..(Len(train) + periods) |->
        IF i <= Len(train) THEN train[i].ds ELSE train[Len(train)].ds + (i - Len(train))]

\* m.predict(future): the fitted model is opaque; its trend is a line through
\* `level` at the first future date with `slope` per day, and its interval
\* lies Band either side.
predict(train, future, level, slope) ==
    [i \in 1..Len(future) |->
        LET yhat == level + slope * (future[i] - train[Len(train)].ds - 1)
        IN  [ds |-> future[i], trend |-> yhat, yhat |-> yhat,
             yhat_lower |-> yhat - Band, yhat_upper |-> yhat + Band]]

\* Lines 104-109, the fit succeeding.
FitOk(level, slope) ==
    /\ pc = "fit"
    /\ LET train == df_prophet(filtered_df)
       IN  forecast' = [rows |-> predict(train, make_future_dataframe(train, horizon),
                                         level, slope)]
    /\ fit_status' = "ok"
    /\ pc' = "tabs"
    /\ UNCHANGED <<globals, sidebarvars, filtered_df, summary, forecast_export,
                   csv, shown, exception>>

\* Variant: the exception is caught and reported with the warning.
FitRaisedAsWarning == [pc |-> "done", shown |-> shown \cup {"warning"}, exception |-> "none"]

\* What an exception out of m.fit leaves of the run: nothing is caught, so
\* the script stops at line 107 and Streamlit shows the exception.
FitRaised == [pc |-> "done", shown |-> shown \cup {"exception"}, exception |-> "FitError"]

\* Lines 104-107, the fit raising.
FitFails ==
    /\ pc = "fit"
    /\ pc' = FitRaised.pc
    /\ shown' = FitRaised.shown
    /\ exception' = FitRaised.exception
    /\ fit_status' = "raised"
    /\ UNCHANGED <<globals, sidebarvars, filtered_df, forecast, summary,
                   forecast_export, csv>>

----------------------------------------------------------------------------
(* Metrics, summary and export *)

\* Series.iloc[i] for a negative i, as a 1-based position.
IlocNeg(n, i) == n + i + 1

\* Variant: forecast['yhat'].iloc[-horizon - 1]
StartRowBefore(fc, h) == Len(fc.rows) - h

\* forecast['yhat'].iloc[-horizon]
StartRow(fc, h) == IlocNeg(Len(fc.rows), -h)

\* forecast[...].iloc[-1]
EndRow(fc) == IlocNeg(Len(fc.rows), -1)

\* ((end_pred - start_pred) / start_pred) * 100 on numpy floats: a zero
\* divisor gives inf, -inf or nan and raises nothing.  A finite quotient is
\* kept as the exact fraction num/den.
PercChange(start_pred, end_pred) ==
    IF start_pred # 0
    THEN [kind |-> "finite", num |-> (end_pred - start_pred) * 100, den |-> start_pred]
    ELSE [kind |-> IF end_pred > 0 THEN "inf" ELSE IF end_pred < 0 THEN "-inf" ELSE "nan",
          num |-> 0, den |-> 0]

\* perc_change > 0
Positive(p) ==
    \/ p.kind = "inf"
    \/ p.kind = "finite" /\ ((p.num > 0 /\ p.den > 0) \/ (p.num < 0 /\ p.den < 0))

TrendLabel(p) == IF Positive(p) THEN "Bullish (Upward)" ELSE "Bearish (Downward)"

\* Lines 124-136.
Summarize(fc, h) ==
    LET start_pred == fc.rows[StartRow(fc, h)].yhat
        end_pred   == fc.rows[EndRow(fc)].yhat
        p          == PercChange(start_pred, end_pred)
    IN  [start_pred  |-> start_pred,
         end_pred    |-> end_pred,
         perc_change |-> p,
         trend_label |-> TrendLabel(p),
         lower       |-> fc.rows[EndRow(fc)].yhat_lower,
         upper       |-> fc.rows[EndRow(fc)].yhat_upper]

ExportColumns == <<"ds", "yhat", "yhat_lower", "yhat_upper">>

\* Variant: one row too many.
tailOneMore(rows, n) == SubSeq(rows, Max(1, Len(rows) - n), Len(rows))

\* DataFrame.tail(n): the last n rows, all of them when there are fewer.
tail(rows, n) == SubSeq(rows, Max(1, Len(rows) - n + 1), Len(rows))

\* forecast[['ds', 'yhat', 'yhat_lower', 'yhat_upper']].tail(horizon)
Export(fc, h) ==
    LET cols == {ExportColumns[k] : k \in 1..Len(ExportColumns)}
        proj == [i \in 1..Len(fc.rows) |-> [c \in cols |-> fc.rows[i][c]]]
    IN  [columns |-> ExportColumns, rows |-> tail(proj, h)]

\* DataFrame.to_csv(index=...): a header line, then a line per row; the row
\* label leads each line only when index is set.
to_csv(df, index) ==
    LET line(i) == [k \in 1..Len(df.columns) |-> df.rows[i][df.columns[k]]]
        header  == IF index THEN <<"">> \o df.columns ELSE df.columns
    IN  <<header>> \o
        [i \in 1..Len(df.rows) |-> IF index THEN <<i - 1>> \o line(i) ELSE line(i)]

\* Lines 112-183: the metrics, then the four tabs.
Tabs ==
    /\ pc = "tabs"
    /\ summary' = Summarize(forecast, horizon)
    /\ forecast_export' = Export(forecast, horizon)
    /\ csv' = to_csv(Export(forecast, horizon), FALSE)
    /\ shown' = shown \cup {"metrics", "chart", "summary", "export", "components"}
    /\ pc' = "done"
    /\ UNCHANGED <<globals, sidebarvars, filtered_df, fit_status, forecast,
                   exception>>

\* The run is over; the next interaction starts the script afresh.
EndRun ==
    /\ pc = "done"
    /\ pc' = "idle"
    /\ ticker' = "AAPL"
    /\ full_df' = None
    /\ queried' = FALSE
    /\ total_days' = 0
    /\ days_offset' = 0
    /\ training_start' = 0
    /\ horizon' = 0
    /\ run_button' = FALSE
    /\ ResetRun
    /\ shown' = {}
    /\ exception' = "none"
    /\ UNCHANGED globals

----------------------------------------------------------------------------
(* Environment *)

Tick(dt) ==
    /\ pc = "idle"
    /\ now + dt <= MaxTime
    /\ now' = now + dt
    /\ UNCHANGED <<provider, cache, last_query, pc, runvars>>

ProviderChange(t, a) ==
    /\ pc = "idle"
    /\ provider[t] # a
    /\ provider' = [provider EXCEPT ![t] = a]
    /\ UNCHANGED <<now, cache, last_query, pc, runvars>>

----------------------------------------------------------------------------

Init ==
    /\ now = 0
    /\ provider \in {f \in [Tickers -> {"error", "norows", "short", "main"}] :
                        \A t \in Tickers : f[t] \in ProviderAnswers(t)}
    /\ cache = [t \in Tickers |-> NoEntry]
    /\ last_query = [t \in Tickers |-> NoQuery]
    /\ pc = "idle"
    /\ ticker = "AAPL"
    /\ full_df = None
    /\ queried = FALSE
    /\ total_days = 0
    /\ days_offset = 0
    /\ training_start = 0
    /\ horizon = 0
    /\ run_button = FALSE
    /\ filtered_df = None
    /\ fit_status = "none"
    /\ forecast = None
    /\ summary = None
    /\ forecast_export = None
    /\ csv = <<>>
    /\ shown = {}
    /\ exception = "none"

Next ==
    \/ \E t \in Tickers : Sidebar(t)
    \/ Main
    \/ \E level \in Levels, slope \in Slopes : FitOk(level, slope)
    \/ FitFails
    \/ Tabs
    \/ EndRun
    \/ \E dt \in TickSteps : Tick(dt)
    \/ \E t \in Tickers : \E a \in ProviderAnswers(t) : ProviderChange(t, a)

Spec == Init /\ [][Next]_vars

----------------------------------------------------------------------------
(* Properties *)

\* A step that runs the sidebar (and with it the load_data call).
SidebarStep == pc = "idle" /\ pc' # "idle"

\* The provider was queried for t less than TTL seconds ago.
QueriedWithinWindow(t) ==
    /\ last_query[t] # NoQuery
    /\ now - last_query[t].at < TTL

OutputsShown == shown \cap {"metrics", "chart", "summary", "export", "components"}

NoForecastOutput ==
    /\ forecast = None
    /\ summary = None
    /\ forecast_export = None
    /\ csv = <<>>
    /\ OutputsShown = {}

\* The engine was called in this run.
EngineInvoked == fit_status # "none"

\* C1: a load_data(ticker) call made less than 3600 seconds after the
\* provider was last queried for that ticker returns what that query gave
\* and does not query the provider; any other call (no earlier query, or
\* one 3600 seconds old or older) queries the provider and returns what it
\* answers now.
C1_FreshnessWindow ==
    [][SidebarStep =>
        LET t == ticker'
        IN  IF QueriedWithinWindow(t)
            THEN /\ ~queried'
                 /\ last_query' = last_query
                 /\ full_df' = last_query[t].result
            ELSE /\ queried'
                 /\ last_query'[t] = [at |-> now, result |-> load_data(t)]
                 /\ full_df' = load_data(t)]_vars

\* C1 witness: a run served from the cache, a while after the query, a
\* series the provider no longer holds.
C1_Witness ==
    /\ pc # "idle"
    /\ ~queried
    /\ full_df # None
    /\ last_query[ticker].at < now
    /\ load_data(ticker) # full_df
    /\ load_data(ticker) # None

\* C2: a triggered run whose filtered series has 20 points or fewer ends
\* with the warning and never calls the engine or shows any forecast
\* output; a triggered run with 21 points or more calls the engine.
C2_Gate ==
    /\ (run_button /\ filtered_df # None /\ Len(filtered_df.rows) <= MinPoints)
          => /\ pc = "done"
             /\ "warning" \in shown
             /\ ~EngineInvoked
             /\ exception = "none"
             /\ NoForecastOutput
    /\ (run_button /\ filtered_df # None /\ Len(filtered_df.rows) >= MinPoints + 1)
          => /\ pc \in {"fit", "tabs", "done"}
             /\ pc # "fit" => EngineInvoked
             /\ "warning" \notin shown
    /\ EngineInvoked => (run_button /\ Len(filtered_df.rows) >= MinPoints + 1)

\* C2 witness: a triggered run halted on exactly 20 points.
C2_Witness ==
    /\ pc = "done"
    /\ run_button
    /\ filtered_df # None
    /\ Len(filtered_df.rows) = MinPoints
    /\ "warning" \in shown

\* C3: in a run whose load_data call returned None the button is never
\* true, and filtering, the engine, the summary and the export are never
\* reached.
C3_NoSeriesNoRun ==
    (pc # "idle" /\ full_df = None)
        => /\ ~run_button
           /\ pc \in {"main", "done"}
           /\ filtered_df = None
           /\ ~EngineInvoked
           /\ NoForecastOutput
           /\ "warning" \notin shown

\* C3 witness: a finished run on a ticker the provider failed for.
C3_Witness ==
    /\ pc = "done"
    /\ full_df = None
    /\ queried
    /\ shown = {"ticker_error", "landing"}

\* C4 as amended: the forecast has training points + horizon rows in
\* ascending date order; start_pred is read at 0-based row index
\* total_rows - horizon, which is the first horizon row, the row right
\* after the last training row; end_pred is read at the final row.
C4_StartRowIsFirstHorizonRow ==
    forecast # None =>
        LET n    == Len(filtered_df.rows)
            rows == forecast.rows
            s    == StartRow(forecast, horizon)
        IN  /\ Len(rows) = n + horizon
            /\ \A i \in 1..(Len(rows) - 1) : rows[i].ds < rows[i + 1].ds
            /\ s - 1 = Len(rows) - horizon
            /\ s = n + 1
            /\ rows[s - 1].ds = filtered_df.rows[n].Date
            /\ rows[s].ds = filtered_df.rows[n].Date + 1
            /\ EndRow(forecast) = Len(rows)
            /\ summary # None =>
                  /\ summary.start_pred = rows[n + 1].yhat
                  /\ summary.end_pred = rows[Len(rows)].yhat

\* C4 witness: a summary whose start_pred differs from the prediction at
\* the last training row.
C4_Witness ==
    /\ summary # None
    /\ summary.start_pred # forecast.rows[Len(filtered_df.rows)].yhat

\* C4 as stated: the row start_pred is read from is the last training row,
\* the one right before the first horizon row.
C4_Original ==
    summary # None =>
        /\ forecast.rows[StartRow(forecast, horizon)].ds
              = filtered_df.rows[Len(filtered_df.rows)].Date
        /\ summary.start_pred = forecast.rows[Len(filtered_df.rows)].yhat

\* C5 as stated: a run whose start_pred is 0 ends in a summarization
\* failure, with no percent change and no trend label.
C5_ZeroStartFails ==
    (pc = "done" /\ forecast # None
        /\ forecast.rows[StartRow(forecast, horizon)].yhat = 0)
        => /\ exception \notin {"none", "FitError"}
           /\ summary = None
           /\ "summary" \notin shown

\* C6: a run whose fit raised (on more than 20 points) ends with the
\* uncaught exception shown, not with the warning, and shows no metrics,
\* summary or export.
C6_FitFailure ==
    fit_status = "raised" =>
        /\ Len(filtered_df.rows) > MinPoints
        /\ pc = "done"
        /\ exception = "FitError"
        /\ "exception" \in shown
        /\ "warning" \notin shown
        /\ NoForecastOutput

\* C6 witness: a finished run whose fit raised.
C6_Witness ==
    /\ pc = "done"
    /\ fit_status = "raised"
    /\ Len(filtered_df.rows) = MinPoints + 1

\* C7: the exported table has exactly horizon rows, they are the last
\* horizon rows of the forecast in ascending date order, restricted to
\* ds, yhat, yhat_lower, yhat_upper; the CSV is a header and one line of
\* four fields per row, with no index column.
C7_Export ==
    forecast_export # None =>
        LET rows  == forecast_export.rows
            total == Len(forecast.rows)
        IN  /\ horizon \in HorizonMin..HorizonMax
            /\ Len(filtered_df.rows) > MinPoints
            /\ Len(rows) = horizon
            /\ \A i \in 1..Len(rows) :
                  /\ DOMAIN rows[i] = {"ds", "yhat", "yhat_lower", "yhat_upper"}
                  /\ \A c \in DOMAIN rows[i] : rows[i][c] = forecast.rows[total - horizon + i][c]
            /\ \A i \in 1..(Len(rows) - 1) : rows[i].ds < rows[i + 1].ds
            /\ rows[Len(rows)].ds = forecast.rows[total].ds
            /\ Len(csv) = horizon + 1
            /\ csv[1] = <<"ds", "yhat", "yhat_lower", "yhat_upper">>
            /\ \A i \in 1..Len(rows) :
                  csv[i + 1] = <<rows[i].ds, rows[i].yhat, rows[i].yhat_lower, rows[i].yhat_upper>>

\* C7 witness: an export at the longest horizon.
C7_Witness ==
    /\ forecast_export # None
    /\ horizon = HorizonMax
    /\ Len(forecast_export.rows) = HorizonMax
    /\ "export" \in shown

\* The rows of df dated start or later, in index order.
RowsFrom(df, start) == SelectSeq(df.rows, LAMBDA r : r.Date >= start)

\* C8: for every offset the slider allows, the filter returns exactly the
\* rows dated earliest + offset or later, in ascending date order, and a
\* larger offset never gives a longer result; the run's filtered_df is
\* that filter at training_start = earliest + days_offset.
C8_Select ==
    /\ (pc = "main" /\ full_df # None) =>
          LET e   == index_min(full_df)
              sel(off) == Select(full_df, e + off).rows
          IN  /\ \A off \in SliderValues(total_days) :
                    /\ sel(off) = RowsFrom(full_df, e + off)
                    /\ Len(sel(off)) > 0 => sel(off)[1].Date >= e + off
                    /\ \A i \in 1..(Len(sel(off)) - 1) : sel(off)[i].Date < sel(off)[i + 1].Date
              /\ \A a, b \in SliderValues(total_days) :
                    a <= b => Len(sel(b)) <= Len(sel(a))
    /\ filtered_df # None =>
          /\ training_start = index_min(full_df) + days_offset
          /\ days_offset \in SliderValues(total_days)
          /\ filtered_df.rows = RowsFrom(full_df, training_start)

\* C8 witness: a filter that dropped rows and whose first row is dated
\* after the start date.
C8_Witness ==
    /\ filtered_df # None
    /\ days_offset > 0
    /\ Len(filtered_df.rows) < Len(full_df.rows)
    /\ filtered_df.rows[1].Date > training_start

\* C9: a None result is served from the cache like a series: a call made
\* less than 3600 seconds after a query that gave None returns None without
\* querying the provider, whatever the provider would answer now.
C9_NoneMemoized ==
    [][(SidebarStep /\ QueriedWithinWindow(ticker')
            /\ last_query[ticker'].result = None)
        => /\ ~queried'
           /\ full_df' = None
           /\ ~run_button'
           /\ cache' = cache]_vars

\* C9 witness: None served from the cache while the provider holds a
\* series.
C9_Witness ==
    /\ pc # "idle"
    /\ ~queried
    /\ full_df = None
    /\ last_query[ticker].at < now
    /\ load_data(ticker) # None

\* C10 as stated: with a series loaded, total_days - 30 >= 0, the offset
\* lies in [0, total_days - 30] and the sidebar gets as far as the button.
C10_OffsetRangeNonEmpty ==
    (pc # "idle" /\ full_df # None)
        => /\ total_days - SliderReserve >= 0
           /\ days_offset \in 0..(total_days - SliderReserve)
           /\ exception # "StreamlitAPIException"

====
